---- MODULE Spec2Model ----
(***************************************************************************)
(* A model of OpenGL/src/Application.cpp: the GL error guard (GLCall,      *)
(* GLClearError, GLLogCall, ASSERT), the shader file splitter              *)
(* (ParseShader), the program builder (CompileShader, CreateShaders) and   *)
(* main with its render loop.                                              *)
(*                                                                         *)
(* Text is a sequence of tokens: a line of the shader file is a sequence   *)
(* of tokens, the stream insertion `<< line << "\n"` appends the line's    *)
(* tokens and the token "\n".  GL object names are indices into objs, one  *)
(* name space for shader and program objects as in OpenGL.                 *)
(***************************************************************************)
EXTENDS Integers, Sequences, FiniteSets

VARIABLES
    pc,          \* the statement about to execute
    haltLine,    \* source line of the __debugbreak() that stopped the process, 0 if none
    \* ---- ParseShader
    file,        \* res/shaders/Basic.shader: [readable, lines]
    stream,      \* std::ifstream stream: [good, pos]
    type,        \* ShaderType type
    ss,          \* std::stringstream ss[2], indexed 0..1
    oob,         \* history: ss was indexed outside 0..1
    source,      \* main's ShaderProgramSource source
    \* ---- the GL context
    errQueue,    \* the error codes glGetError will yield, each with the call that raised it
    out,         \* everything written to std::cout, in order
    objs,        \* shader and program objects, by name (index)
    bind,        \* current bindings: [vao, array, element, program]
    staleUse,    \* history: a deleted program was named by glUseProgram / used by glUniform4f
    \* ---- CompileShader, CreateShaders
    shaderType,  \* CompileShader's parameter `type`
    id,          \* CompileShader's local id
    result,      \* the local `int result` of the function running
    program, vs, fs,
    \* ---- main
    glfw,        \* "off" | "init" | "window" | "terminated"
    glewOK,      \* glewInit() == GLEW_OK
    shader, location, r, increment,
    frames,      \* history: iterations of the render loop so far
    \* ---- a sequence of guarded and unguarded GL calls (the GLCall macro, step by step)
    calls,       \* GL calls made so far
    cur,         \* the source line of the guarded call in progress
    xerrs,       \* the codes the guarded call x raised
    drained,     \* how many stale codes the latest GLClearError removed
    printed,     \* what the latest GLLogCall wrote
    logRet       \* what the latest GLLogCall returned

parseVars == <<file, stream, type, ss, oob, source>>
glVars    == <<errQueue, out, objs, bind, staleUse>>
buildVars == <<shaderType, id, result, program, vs, fs>>
mainVars  == <<glfw, glewOK, shader, location, r, increment, frames>>
guardVars == <<calls, cur, xerrs, drained, printed, logRet>>
vars == <<pc, haltLine, parseVars, glVars, buildVars, mainVars, guardVars>>

(***************************************************************************)
(* Bounds of the model.                                                    *)
(***************************************************************************)
MaxLines  == 4    \* lines of the shader file
MaxFrames == 2    \* iterations of the render loop
MaxCalls  == 3    \* GL calls in a sequence of guarded / unguarded calls
MaxErrs   == 2    \* error codes one GL call can leave queued

(***************************************************************************)
(* Constants of the GL headers the program uses.                           *)
(***************************************************************************)
GL_NO_ERROR          == 0
GL_FALSE             == 0
GL_TRUE              == 1
GL_INVALID_ENUM      == 1280
GL_INVALID_VALUE     == 1281
GL_INVALID_OPERATION == 1282
GL_VERTEX_SHADER     == 35633
GL_FRAGMENT_SHADER   == 35632
NONE     == -1
VERTEX   == 0
FRAGMENT == 1

ErrCodes == {GL_INVALID_ENUM, GL_INVALID_VALUE}

Last(s) == s[Len(s)]

(***************************************************************************)
(* The error guard: lines 9-29.                                            *)
(***************************************************************************)

\* An entry of the error queue: the code and (history) the line of the call that raised it.
Err(code, by) == [code |-> code, by |-> by]

\* The queue entries of a call at `line` that raises the codes errs.
Raised(errs, line) == [i \in 1..Len(errs) |-> Err(errs[i], line)]

\* glGetError(): the oldest queued code, removed from the queue, or GL_NO_ERROR.
glGetError(q) ==
    IF q = <<>> THEN [error |-> Err(GL_NO_ERROR, 0), queue |-> q]
                ELSE [error |-> Head(q), queue |-> Tail(q)]

\* A GLClearError that polls once instead of looping.
GLClearError_Once(q) == glGetError(q).queue

\* static void GLClearError(): while (glGetError() != GL_NO_ERROR);
RECURSIVE GLClearError(_)
GLClearError(q) ==
    LET g == glGetError(q)
    IN  IF g.error.code # GL_NO_ERROR THEN GLClearError(g.queue) ELSE g.queue

\* One line written to std::cout.
Cout(kind, error, function, line, by) ==
    [kind |-> kind, error |-> error, function |-> function,
     file |-> "Application.cpp", line |-> line, by |-> by]

\* static bool GLLogCall(function, file, line): the loop body ends in `return false`,
\* so the first code polled is printed and the function returns.
GLLogCall(q, o, function, line) ==
    LET g == glGetError(q)
    IN  IF g.error.code # 0
        THEN [queue |-> g.queue,
              out   |-> Append(o, Cout("[OpenGL Error]", g.error.code, function, line, g.error.by)),
              ret   |-> FALSE]
        ELSE [queue |-> g.queue, out |-> o, ret |-> TRUE]

\* An ASSERT that breaks when its condition holds.
ASSERT_Inverted(x) == x

\* #define ASSERT(x) if(!(x)) __debugbreak();   TRUE when __debugbreak() executes.
ASSERT(x) == ~x

\* __debugbreak(): under a debugger the run can be resumed, otherwise the
\* breakpoint exception ends the process.  The statement at `line` goes on to
\* `next` unless the break stops it.
DebugBreak(breaks, line, next) ==
    \E resume \in BOOLEAN :
        IF breaks /\ ~resume
        THEN pc' = "halted" /\ haltLine' = line
        ELSE pc' = next /\ haltLine' = haltLine

\* GLCall(x) at `line`, where x raises the codes errs, on the queue q and the
\* output o: GLClearError(); x; GLLogCall(#x, __FILE__, __LINE__).
GLCall(q, o, errs, function, line) ==
    GLLogCall(GLClearError(q) \o Raised(errs, line), o, function, line)

\* A run of GLCall(x) statements, sites = <<function, line>>..., whose calls raise
\* no error: the queue and the output after the last of them.
RECURSIVE GLCallsOK(_, _, _)
GLCallsOK(q, o, sites) ==
    IF sites = <<>> THEN [queue |-> q, out |-> o]
    ELSE LET g == GLCall(q, o, <<>>, Head(sites)[1], Head(sites)[2])
         IN  GLCallsOK(g.queue, g.out, Tail(sites))

(***************************************************************************)
(* ParseShader: lines 37-65, called from main at line 203.                 *)
(***************************************************************************)

\* The lines a shader file is made of: content lines, marker lines with one
\* keyword, with none and with both.
Lines ==
    { <<"a">>, <<"b", "vertex">>,
      <<"#shader", "vertex">>, <<"#shader", "fragment">>,
      <<"#shader">>, <<"#shader", "fragment", "vertex">> }

Files ==
    { [readable |-> TRUE, lines |-> l] :
        l \in UNION { [1..k -> Lines] : k \in 0..MaxLines } }
    \cup { [readable |-> FALSE, lines |-> <<>>] }

\* line.find(tok) != std::string::npos
find(line, tok) == \E i \in 1..Len(line) : line[i] = tok

\* getline(stream, line) succeeds: the stream is good and a line is left.
getline == stream.good /\ stream.pos < Len(file.lines)

\* What indexing ss[(int)type] with type == NONE (-1) can do: the process dies,
\* the stray write shows nowhere, or it damages one of the two buffers.
UBOutcomes == {"crash", "silent", "ss0", "ss1"}

\* std::ifstream stream(filepath); ... ShaderType type = ShaderType::NONE;
Parse_Open ==
    /\ pc = "Parse_Open"
    /\ stream' = [good |-> file.readable, pos |-> 0]
    /\ type' = NONE
    /\ ss' = [i \in 0..1 |-> <<>>]
    /\ pc' = "Parse_Loop"
    /\ UNCHANGED <<haltLine, file, oob, source, glVars, buildVars, mainVars, guardVars>>

\* One iteration of while (getline(stream, line)).
Parse_Line ==
    /\ pc = "Parse_Loop"
    /\ getline
    /\ LET line == file.lines[stream.pos + 1]
       IN  /\ stream' = [stream EXCEPT !.pos = @ + 1]
           /\ IF find(line, "#shader")
              THEN /\ type' = IF find(line, "vertex") THEN VERTEX
                              ELSE IF find(line, "fragment") THEN FRAGMENT
                              ELSE type
                   /\ UNCHANGED <<ss, oob, pc>>
              ELSE IF type \in 0..1
              THEN /\ ss' = [ss EXCEPT ![type] = @ \o line \o <<"\n">>]
                   /\ UNCHANGED <<type, oob, pc>>
              ELSE /\ oob' = TRUE
                   /\ type' = type
                   /\ \E o \in UBOutcomes :
                        /\ pc' = IF o = "crash" THEN "crashed" ELSE pc
                        /\ ss' = IF o = "ss0" THEN [ss EXCEPT ![0] = @ \o line \o <<"\n">>]
                                 ELSE IF o = "ss1" THEN [ss EXCEPT ![1] = @ \o line \o <<"\n">>]
                                 ELSE ss
    /\ UNCHANGED <<haltLine, file, source, glVars, buildVars, mainVars, guardVars>>

\* getline fails; return { ss[0].str(), ss[1].str() }; main stores it in source
\* and calls CreateShaders(source.VertexSource, source.FragmentSource).
Parse_Return ==
    /\ pc = "Parse_Loop"
    /\ ~getline
    /\ source' = [VertexSource |-> ss[0], FragmentSource |-> ss[1]]
    /\ pc' = "CS_CreateProgram"
    /\ UNCHANGED <<haltLine, file, stream, type, ss, oob, glVars, buildVars, mainVars, guardVars>>

(***************************************************************************)
(* The GL calls the program makes, as OpenGL specifies them: the error a   *)
(* call raises for the names it is given, and what it does to the objects. *)
(***************************************************************************)

NewObj(kind, stype) ==
    [kind |-> kind, stype |-> stype, compiled |-> FALSE, linked |-> FALSE,
     validated |-> FALSE, deletes |-> 0, attached |-> {}]

\* h names an object of this kind that no glDelete* call has named.
IsName(h, kind) == h \in 1..Len(objs) /\ objs[h].kind = kind /\ objs[h].deletes = 0

\* h names an object some glDelete* call has named already.
IsDeleted(h) == h \in 1..Len(objs) /\ objs[h].deletes > 0

\* glDeleteShader(h) / glDeleteProgram(h): 0 is silently ignored; deletes counts
\* the delete calls that named the object.
glDelete(o, h) == IF h \in 1..Len(o) THEN [o EXCEPT ![h].deletes = @ + 1] ELSE o

glDeleteErrs(h, kind) ==
    IF h = 0 \/ IsName(h, kind) THEN <<>> ELSE <<GL_INVALID_VALUE>>

\* glAttachShader(p, s)
glAttachShaderErrs(p, s) ==
    IF ~IsName(p, "program") \/ ~IsName(s, "shader") THEN <<GL_INVALID_VALUE>>
    ELSE IF s \in objs[p].attached THEN <<GL_INVALID_OPERATION>>
    ELSE <<>>

\* glUseProgram(p)
glUseProgramErrs(p) ==
    IF p = 0 THEN <<>>
    ELSE IF ~IsName(p, "program") THEN <<GL_INVALID_VALUE>>
    ELSE IF ~objs[p].linked THEN <<GL_INVALID_OPERATION>>
    ELSE <<>>

\* glGetUniformLocation(p, name)
glGetUniformLocationErrs(p) ==
    IF ~IsName(p, "program") THEN <<GL_INVALID_VALUE>>
    ELSE IF ~objs[p].linked THEN <<GL_INVALID_OPERATION>>
    ELSE <<>>

\* glUniform4f(location, ...): an error when no program is current; location -1
\* is silently ignored.
glUniform4fErrs == IF bind.program = 0 THEN <<GL_INVALID_OPERATION>> ELSE <<>>

(***************************************************************************)
(* CompileShader: lines 67-95.                                             *)
(***************************************************************************)

\* return from CompileShader into CreateShaders: line 100 stores vs and calls
\* CompileShader(GL_FRAGMENT_SHADER, fragmentShader), line 101 stores fs.
CompileShaderReturn(ret) ==
    IF shaderType = GL_VERTEX_SHADER
    THEN /\ vs' = ret /\ fs' = fs
         /\ shaderType' = GL_FRAGMENT_SHADER
         /\ pc' = "Comp_Compile"
    ELSE /\ fs' = ret /\ vs' = vs
         /\ shaderType' = shaderType
         /\ pc' = "CS_AttachVS"

\* Lines 70-81: glCreateShader, glShaderSource, glCompileShader and the query of
\* GL_COMPILE_STATUS; the driver decides whether the text compiles.
Comp_Compile ==
    /\ pc = "Comp_Compile"
    /\ \E ok \in BOOLEAN :
         /\ objs' = Append(objs, [NewObj("shader", shaderType) EXCEPT !.compiled = ok])
         /\ result' = IF ok THEN GL_TRUE ELSE GL_FALSE
    /\ id' = Len(objs) + 1
    /\ LET g == GLCallsOK(errQueue, out,
                  << <<"unsigned int id = glCreateShader(type)", 70>>,
                     <<"glShaderSource(id, 1, &src, nullptr)", 74>>,
                     <<"glCompileShader(id)", 77>>,
                     <<"glGetShaderiv(id, GL_COMPILE_STATUS, &result)", 81>> >>)
       IN  errQueue' = g.queue /\ out' = g.out
    /\ pc' = "Comp_Check"
    /\ UNCHANGED <<haltLine, parseVars, bind, staleUse, shaderType, program, vs, fs,
                   mainVars, guardVars>>

\* Lines 82-92: the compile failed: fetch and print the log, delete the shader, return 0.
Comp_Failed ==
    /\ pc = "Comp_Check"
    /\ result = GL_FALSE
    /\ LET g1 == GLCallsOK(errQueue, out,
                   << <<"glGetShaderiv(id, GL_INFO_LOG_LENGTH, &length)", 85>>,
                      <<"glGetShaderInfoLog(id, length, &length, message)", 87>> >>)
           o2 == g1.out \o
                 << Cout("Failed to compile", 0,
                         IF shaderType = GL_VERTEX_SHADER THEN "vertex" ELSE "fragment", 88, 0),
                    Cout("Message", 0, "info log", 89, 0) >>
           g3 == GLCall(g1.queue, o2, glDeleteErrs(id, "shader"), "glDeleteShader(id)", 90)
       IN  /\ errQueue' = g3.queue
           /\ out' = g3.out
           /\ objs' = glDelete(objs, id)
    /\ CompileShaderReturn(0)
    /\ UNCHANGED <<haltLine, parseVars, bind, staleUse, id, result, program,
                   mainVars, guardVars>>

\* Lines 82, 94: return id.
Comp_Return ==
    /\ pc = "Comp_Check"
    /\ result # GL_FALSE
    /\ CompileShaderReturn(id)
    /\ UNCHANGED <<haltLine, parseVars, glVars, id, result, program, mainVars, guardVars>>

(***************************************************************************)
(* CreateShaders: lines 97-128, called from main at line 204.              *)
(***************************************************************************)

\* Line 99, then the call CompileShader(GL_VERTEX_SHADER, vertexShader) of line 100.
CS_CreateProgram ==
    /\ pc = "CS_CreateProgram"
    /\ objs' = Append(objs, NewObj("program", 0))
    /\ program' = Len(objs) + 1
    /\ LET g == GLCall(errQueue, out, <<>>, "unsigned int program = glCreateProgram()", 99)
       IN  errQueue' = g.queue /\ out' = g.out
    /\ shaderType' = GL_VERTEX_SHADER
    /\ pc' = "Comp_Compile"
    /\ UNCHANGED <<haltLine, parseVars, bind, staleUse, id, result, vs, fs, mainVars, guardVars>>

\* GLCall(glAttachShader(program, s)) at `line`.
AttachShader(s, function, line, next) ==
    LET errs == glAttachShaderErrs(program, s)
        g    == GLCall(errQueue, out, errs, function, line)
    IN  /\ objs' = IF errs = <<>> THEN [objs EXCEPT ![program].attached = @ \cup {s}] ELSE objs
        /\ errQueue' = g.queue
        /\ out' = g.out
        /\ DebugBreak(ASSERT(g.ret), line, next)
        /\ UNCHANGED <<parseVars, bind, staleUse, buildVars, mainVars, guardVars>>

\* Line 103.
CS_AttachVS ==
    /\ pc = "CS_AttachVS"
    /\ AttachShader(vs, "glAttachShader(program, vs)", 103, "CS_AttachFS")

\* Line 104.
CS_AttachFS ==
    /\ pc = "CS_AttachFS"
    /\ AttachShader(fs, "glAttachShader(program, fs)", 104, "CS_Link")

\* Lines 105-109: glLinkProgram and the query of GL_LINK_STATUS; the driver
\* decides whether the attached shaders link.
CS_Link ==
    /\ pc = "CS_Link"
    /\ \E ok \in BOOLEAN :
         /\ objs' = [objs EXCEPT ![program].linked = ok]
         /\ result' = IF ok THEN GL_TRUE ELSE GL_FALSE
    /\ LET g == GLCallsOK(errQueue, out,
                  << <<"glLinkProgram(program)", 105>>,
                     <<"glGetProgramiv(program, GL_LINK_STATUS, &result)", 109>> >>)
       IN  errQueue' = g.queue /\ out' = g.out
    /\ pc' = "CS_Check"
    /\ UNCHANGED <<haltLine, parseVars, bind, staleUse, shaderType, id, program, vs, fs,
                   mainVars, guardVars>>

\* A test of the link status that never sees a failure.
LinkFailed_Never(res) == FALSE

\* Line 110: if (result == GL_FALSE)
LinkFailed(res) == res = GL_FALSE

\* The link failure branch returning the deleted program's handle.
CS_LinkFailed_ReturnsProgram ==
    /\ pc = "CS_Check"
    /\ LinkFailed(result)
    /\ objs' = glDelete(objs, program)
    /\ shader' = program
    /\ pc' = "Main_UseProgram"
    /\ UNCHANGED <<haltLine, parseVars, errQueue, out, bind, staleUse, buildVars,
                   glfw, glewOK, location, r, increment, frames, guardVars>>

\* Lines 110-120: the link failed: fetch and print the log, delete the program,
\* return 0, which main stores in shader.
CS_LinkFailed ==
    /\ pc = "CS_Check"
    /\ LinkFailed(result)
    /\ LET g1 == GLCallsOK(errQueue, out,
                   << <<"glGetProgramiv(program, GL_INFO_LOG_LENGTH, &length)", 113>>,
                      <<"glGetProgramInfoLog(program, length, &length, message)", 115>> >>)
           o2 == g1.out \o << Cout("Failed to link program!", 0, "", 116, 0),
                              Cout("Message", 0, "info log", 117, 0) >>
           g3 == GLCall(g1.queue, o2, glDeleteErrs(program, "program"),
                        "glDeleteProgram(program)", 118)
       IN  /\ errQueue' = g3.queue
           /\ out' = g3.out
           /\ objs' = glDelete(objs, program)
    /\ shader' = 0
    /\ pc' = "Main_UseProgram"
    /\ UNCHANGED <<haltLine, parseVars, bind, staleUse, buildVars,
                   glfw, glewOK, location, r, increment, frames, guardVars>>

\* Lines 110, 122-127: the link succeeded: validate, delete both shaders, return
\* program, which main stores in shader.  Nothing reads the validation status.
CS_ValidateReturn ==
    /\ pc = "CS_Check"
    /\ ~LinkFailed(result)
    /\ \E ok \in BOOLEAN :
         objs' = glDelete(glDelete([objs EXCEPT ![program].validated = ok], vs), fs)
    /\ LET g == GLCallsOK(errQueue, out,
                  << <<"glValidateProgram(program)", 122>>,
                     <<"glDeleteShader(vs)", 124>>,
                     <<"glDeleteShader(fs)", 125>> >>)
       IN  errQueue' = g.queue /\ out' = g.out
    /\ shader' = program
    /\ pc' = "Main_UseProgram"
    /\ UNCHANGED <<haltLine, parseVars, bind, staleUse, buildVars,
                   glfw, glewOK, location, r, increment, frames, guardVars>>

(***************************************************************************)
(* main: lines 130-259.                                                    *)
(***************************************************************************)

\* Lines 135-136: if (!glfwInit()) return -1;
Main_glfwInit ==
    /\ pc = "Main_glfwInit"
    /\ \E ok \in BOOLEAN :
         /\ glfw' = IF ok THEN "init" ELSE glfw
         /\ pc' = IF ok THEN "Main_CreateWindow" ELSE "exit"
    /\ UNCHANGED <<haltLine, parseVars, glVars, buildVars, glewOK, shader, location,
                   r, increment, frames, guardVars>>

\* Lines 142-153: the window and its context, or glfwTerminate(); return -1;
Main_CreateWindow ==
    /\ pc = "Main_CreateWindow"
    /\ \E ok \in BOOLEAN :
         /\ glfw' = IF ok THEN "window" ELSE "terminated"
         /\ pc' = IF ok THEN "Main_Context" ELSE "exit"
    /\ UNCHANGED <<haltLine, parseVars, glVars, buildVars, glewOK, shader, location,
                   r, increment, frames, guardVars>>

\* Lines 156-164: the context is made current, glewInit() loads the GL entry
\* points (or prints "Error!"), the version string is printed.
Main_Context ==
    /\ pc = "Main_Context"
    /\ \E ok \in BOOLEAN :
         /\ glewOK' = ok
         /\ out' = (IF ok THEN out ELSE Append(out, Cout("Error!", 0, "", 162, 0)))
                   \o << Cout("GL_VERSION", 0, "", 164, 0) >>
    /\ pc' = "Main_Buffers"
    /\ UNCHANGED <<haltLine, parseVars, errQueue, objs, bind, staleUse, buildVars, glfw,
                   shader, location, r, increment, frames, guardVars>>

\* Lines 181-201: the vertex array, the vertex buffer and the index buffer.  With
\* no entry points loaded the first call through one is a call through a null pointer.
Main_Buffers ==
    /\ pc = "Main_Buffers"
    /\ IF glewOK
       THEN /\ LET g == GLCallsOK(errQueue, out,
                    << <<"glCreateVertexArrays(1, &vao)", 181>>,
                       <<"glBindVertexArray(vao)", 182>>,
                       <<"glGenBuffers(1, &buffer)", 189>>,
                       <<"glBindBuffer(GL_ARRAY_BUFFER, buffer)", 190>>,
                       <<"glBufferData(GL_ARRAY_BUFFER, ...)", 191>>,
                       <<"glEnableVertexAttribArray(0)", 194>>,
                       <<"glVertexAttribPointer(0, ...)", 196>>,
                       <<"glGenBuffers(1, &ibo)", 199>>,
                       <<"glBindBuffer(GL_ELEMENT_ARRAY_BUFFER, ibo)", 200>>,
                       <<"glBufferData(GL_ELEMENT_ARRAY_BUFFER, ...)", 201>> >>)
               IN  errQueue' = g.queue /\ out' = g.out
            /\ bind' = [bind EXCEPT !.vao = "vao", !.array = "buffer", !.element = "ibo"]
            /\ pc' = "Parse_Open"
       ELSE /\ pc' = "crashed"
            /\ UNCHANGED <<errQueue, out, bind>>
    /\ UNCHANGED <<haltLine, parseVars, objs, staleUse, buildVars, mainVars, guardVars>>

\* GLCall(glUseProgram(shader)) at `line`.
UseProgram(function, line, next) ==
    LET errs == glUseProgramErrs(shader)
        g    == GLCall(errQueue, out, errs, function, line)
    IN  /\ bind' = IF errs = <<>> THEN [bind EXCEPT !.program = shader] ELSE bind
        /\ staleUse' = (staleUse \/ IsDeleted(shader))
        /\ errQueue' = g.queue
        /\ out' = g.out
        /\ DebugBreak(ASSERT(g.ret), line, next)
        /\ UNCHANGED <<parseVars, objs, buildVars, mainVars, guardVars>>

\* GLCall(glUniform4f(location, ...)) at `line`.
Uniform4f(function, line, next) ==
    LET g == GLCall(errQueue, out, glUniform4fErrs, function, line)
    IN  /\ staleUse' = (staleUse \/ IsDeleted(bind.program))
        /\ errQueue' = g.queue
        /\ out' = g.out
        /\ DebugBreak(ASSERT(g.ret), line, next)
        /\ UNCHANGED <<parseVars, objs, bind, buildVars, mainVars, guardVars>>

\* Line 205.
Main_UseProgram ==
    /\ pc = "Main_UseProgram"
    /\ UseProgram("glUseProgram(shader)", 205, "Main_GetUniformLocation")

\* Line 207: the location of u_Color, -1 when the program has no such active uniform.
Main_GetUniformLocation ==
    /\ pc = "Main_GetUniformLocation"
    /\ LET errs == glGetUniformLocationErrs(shader)
           g    == GLCall(errQueue, out, errs,
                          "int location = glGetUniformLocation(shader, \"u_Color\")", 207)
       IN  /\ \E loc \in {-1, 0} : location' = IF errs = <<>> THEN loc ELSE -1
           /\ errQueue' = g.queue
           /\ out' = g.out
           /\ DebugBreak(ASSERT(g.ret), 207, "Main_AssertLocation")
    /\ UNCHANGED <<parseVars, objs, bind, staleUse, buildVars, glfw, glewOK, shader,
                   r, increment, frames, guardVars>>

\* Line 208: ASSERT(location != -1);
Main_AssertLocation ==
    /\ pc = "Main_AssertLocation"
    /\ DebugBreak(ASSERT(location # -1), 208, "Main_Uniform4f")
    /\ UNCHANGED <<parseVars, glVars, buildVars, mainVars, guardVars>>

\* Line 209.
Main_Uniform4f ==
    /\ pc = "Main_Uniform4f"
    /\ Uniform4f("glUniform4f(location, 0.2f, 0.5f, 0.8f, 1.0f)", 209, "Main_Unbind")

\* Lines 212-218: everything is unbound; r = 0.0f, increment = 0.01f (in hundredths).
Main_Unbind ==
    /\ pc = "Main_Unbind"
    /\ LET g == GLCallsOK(errQueue, out,
                  << <<"glBindVertexArray(0)", 212>>,
                     <<"glUseProgram(0)", 213>>,
                     <<"glBindBuffer(GL_ARRAY_BUFFER, 0)", 214>>,
                     <<"glBindBuffer(GL_ELEMENT_ARRAY_BUFFER, 0)", 215>> >>)
       IN  errQueue' = g.queue /\ out' = g.out
    /\ bind' = [vao |-> "none", array |-> "none", element |-> "none", program |-> 0]
    /\ r' = 0
    /\ increment' = 1
    /\ pc' = "Main_Loop"
    /\ UNCHANGED <<haltLine, parseVars, objs, staleUse, buildVars, glfw, glewOK, shader,
                   location, frames, guardVars>>

\* Lines 220-224: while (!glfwWindowShouldClose(window)), then the clear calls.
\* The window is closed after MaxFrames frames at the latest.
Main_Loop ==
    /\ pc = "Main_Loop"
    /\ \E close \in BOOLEAN :
         IF close \/ frames >= MaxFrames
         THEN /\ pc' = "Main_DeleteProgram"
              /\ UNCHANGED <<errQueue, out, frames>>
         ELSE /\ LET g == GLCallsOK(errQueue, out,
                            << <<"glClearColor(0.0f, 0.0f, 0.0f, 1.0f)", 223>>,
                               <<"glClear(GL_COLOR_BUFFER_BIT)", 224>> >>)
                 IN  errQueue' = g.queue /\ out' = g.out
              /\ frames' = frames + 1
              /\ pc' = "Frame_UseProgram"
    /\ UNCHANGED <<haltLine, parseVars, objs, bind, staleUse, buildVars, glfw, glewOK,
                   shader, location, r, increment, guardVars>>

\* Line 227.
Frame_UseProgram ==
    /\ pc = "Frame_UseProgram"
    /\ UseProgram("glUseProgram(shader)", 227, "Frame_Uniform4f")

\* Line 228.
Frame_Uniform4f ==
    /\ pc = "Frame_Uniform4f"
    /\ Uniform4f("glUniform4f(location, r, 0.5f, 0.8f, 1.0f)", 228, "Frame_Draw")

\* Lines 232-252: bind, draw, step r (in hundredths), swap and poll.
Frame_Draw ==
    /\ pc = "Frame_Draw"
    /\ LET g == GLCallsOK(errQueue, out,
                  << <<"glBindVertexArray(vao)", 232>>,
                     <<"glBindBuffer(GL_ELEMENT_ARRAY_BUFFER, ibo)", 233>>,
                     <<"glDrawElements(GL_TRIANGLES, 6, GL_UNSIGNED_INT, nullptr)", 241>>,
                     <<"glfwSwapBuffers(window)", 251>>,
                     <<"glfwPollEvents()", 252>> >>)
       IN  errQueue' = g.queue /\ out' = g.out
    /\ bind' = [bind EXCEPT !.vao = "vao", !.element = "ibo"]
    /\ LET inc == IF r > 100 THEN -1 ELSE IF r < 0 THEN 1 ELSE increment
       IN  increment' = inc /\ r' = r + inc
    /\ pc' = "Main_Loop"
    /\ UNCHANGED <<haltLine, parseVars, objs, staleUse, buildVars, glfw, glewOK, shader,
                   location, frames, guardVars>>

\* Line 255: GLCall(glDeleteProgram(shader));
Main_DeleteProgram ==
    /\ pc = "Main_DeleteProgram"
    /\ LET g == GLCall(errQueue, out, glDeleteErrs(shader, "program"),
                       "glDeleteProgram(shader)", 255)
       IN  /\ errQueue' = g.queue
           /\ out' = g.out
           /\ DebugBreak(ASSERT(g.ret), 255, "Main_Terminate")
    /\ objs' = glDelete(objs, shader)
    /\ UNCHANGED <<parseVars, bind, staleUse, buildVars, mainVars, guardVars>>

\* Lines 257-258: glfwTerminate(); return 0;
Main_Terminate ==
    /\ pc = "Main_Terminate"
    /\ glfw' = "terminated"
    /\ pc' = "exit"
    /\ UNCHANGED <<haltLine, parseVars, glVars, buildVars, glewOK, shader, location,
                   r, increment, frames, guardVars>>

(***************************************************************************)
(* The GLCall macro step by step, in a sequence of guarded and unguarded   *)
(* GL calls that raise any codes: lines 10-12.  The k-th call of the       *)
(* sequence stands at line k.                                              *)
(***************************************************************************)

ErrSeqs == UNION { [1..k -> ErrCodes] : k \in 0..MaxErrs }

\* A GL call outside GLCall (as glGetString at line 164): its codes stay queued.
G_Unguarded ==
    /\ pc = "G_Idle"
    /\ calls < MaxCalls
    /\ \E errs \in ErrSeqs : errQueue' = errQueue \o Raised(errs, calls + 1)
    /\ calls' = calls + 1
    /\ UNCHANGED <<pc, haltLine, parseVars, out, objs, bind, staleUse, buildVars, mainVars,
                   cur, xerrs, drained, printed, logRet>>

\* GLCall(x), first statement: GLClearError();
G_Clear ==
    /\ pc = "G_Idle"
    /\ calls < MaxCalls
    /\ cur' = calls + 1
    /\ errQueue' = GLClearError(errQueue)
    /\ drained' = Len(errQueue)
    /\ pc' = "G_Call"
    /\ UNCHANGED <<haltLine, parseVars, out, objs, bind, staleUse, buildVars, mainVars,
                   calls, xerrs, printed, logRet>>

\* GLCall(x), second statement: x;
G_Call ==
    /\ pc = "G_Call"
    /\ \E errs \in ErrSeqs :
         /\ errQueue' = errQueue \o Raised(errs, cur)
         /\ xerrs' = errs
    /\ calls' = calls + 1
    /\ pc' = "G_Log"
    /\ UNCHANGED <<haltLine, parseVars, out, objs, bind, staleUse, buildVars, mainVars,
                   cur, drained, printed, logRet>>

\* GLCall(x), third statement, the argument of ASSERT: GLLogCall(#x, __FILE__, __LINE__)
G_Log ==
    /\ pc = "G_Log"
    /\ LET g == GLLogCall(errQueue, out, "x", cur)
       IN  /\ errQueue' = g.queue
           /\ out' = g.out
           /\ printed' = SubSeq(g.out, Len(out) + 1, Len(g.out))
           /\ logRet' = g.ret
    /\ pc' = "G_Assert"
    /\ UNCHANGED <<haltLine, parseVars, objs, bind, staleUse, buildVars, mainVars,
                   calls, cur, xerrs, drained>>

\* GLCall(x), third statement: ASSERT(...)
G_Assert ==
    /\ pc = "G_Assert"
    /\ DebugBreak(ASSERT(logRet), cur, "G_Idle")
    /\ UNCHANGED <<parseVars, glVars, buildVars, mainVars, guardVars>>

(***************************************************************************)
(* Specifications.                                                         *)
(***************************************************************************)

\* main's locals before main runs; the shader file is f.
Start(f) ==
    /\ haltLine = 0
    /\ file = f
    /\ stream = [good |-> FALSE, pos |-> 0]
    /\ type = NONE
    /\ ss = [i \in 0..1 |-> <<>>]
    /\ oob = FALSE
    /\ source = [VertexSource |-> <<>>, FragmentSource |-> <<>>]
    /\ errQueue = <<>>
    /\ objs = <<>>
    /\ staleUse = FALSE
    /\ shaderType = GL_VERTEX_SHADER
    /\ id = 0 /\ result = 0 /\ program = 0 /\ vs = 0 /\ fs = 0
    /\ shader = 0 /\ location = 0 /\ r = 0 /\ increment = 1 /\ frames = 0
    /\ calls = 0 /\ cur = 0 /\ xerrs = <<>> /\ drained = 0 /\ printed = <<>>
    /\ logRet = TRUE

\* The context is current and the entry points are loaded (after line 164).
ContextReady ==
    /\ glfw = "window"
    /\ glewOK = TRUE
    /\ out = << Cout("GL_VERSION", 0, "", 164, 0) >>

\* The example of the shader file format, an unreadable file, a file with no
\* marker line and an empty file.
MainFiles ==
    { [readable |-> TRUE,
       lines |-> << <<"#shader", "vertex">>, <<"a">>, <<"#shader", "fragment">>, <<"b", "vertex">> >>],
      [readable |-> FALSE, lines |-> <<>>],
      [readable |-> TRUE, lines |-> << <<"a">> >>],
      [readable |-> TRUE, lines |-> <<>>] }

\* The program: main from its first statement.
Init ==
    /\ pc = "Main_glfwInit"
    /\ \E f \in MainFiles : Start(f)
    /\ glfw = "off"
    /\ glewOK = FALSE
    /\ out = <<>>
    /\ bind = [vao |-> "none", array |-> "none", element |-> "none", program |-> 0]

Next ==
    \/ Main_glfwInit \/ Main_CreateWindow \/ Main_Context \/ Main_Buffers
    \/ Parse_Open \/ Parse_Line \/ Parse_Return
    \/ CS_CreateProgram \/ Comp_Compile \/ Comp_Failed \/ Comp_Return
    \/ CS_AttachVS \/ CS_AttachFS \/ CS_Link \/ CS_LinkFailed \/ CS_ValidateReturn
    \/ Main_UseProgram \/ Main_GetUniformLocation \/ Main_AssertLocation
    \/ Main_Uniform4f \/ Main_Unbind \/ Main_Loop
    \/ Frame_UseProgram \/ Frame_Uniform4f \/ Frame_Draw
    \/ Main_DeleteProgram \/ Main_Terminate

Spec == Init /\ [][Next]_vars

\* ParseShader on every shader file of at most MaxLines lines, from the call at
\* line 203 to the call of CreateShaders at line 204.
InitParse ==
    /\ pc = "Parse_Open"
    /\ \E f \in Files : Start(f)
    /\ ContextReady
    /\ bind = [vao |-> "vao", array |-> "buffer", element |-> "ibo", program |-> 0]

NextParse == Parse_Open \/ Parse_Line \/ Parse_Return \/ CS_CreateProgram

SpecParse == InitParse /\ [][NextParse]_vars

\* The guard in a sequence of at most MaxCalls guarded and unguarded GL calls.
InitGuard ==
    /\ pc = "G_Idle"
    /\ Start([readable |-> FALSE, lines |-> <<>>])
    /\ ContextReady
    /\ bind = [vao |-> "none", array |-> "none", element |-> "none", program |-> 0]

NextGuard == G_Unguarded \/ G_Clear \/ G_Call \/ G_Log \/ G_Assert

SpecGuard == InitGuard /\ [][NextGuard]_vars

\* The state in which main calls ParseShader is the one SpecParse starts from.
ParseStartsReady ==
    pc = "Parse_Open" =>
        /\ ContextReady /\ Start(file)
        /\ bind = [vao |-> "vao", array |-> "buffer", element |-> "ibo", program |-> 0]

(***************************************************************************)
(* The claims.                                                             *)
(***************************************************************************)

\* A marker line: the line contains #shader.
IsMarker(l) == \E i \in 1..Len(l) : l[i] = "#shader"

\* The section a marker line selects, NONE when it names no keyword.
Selects(l) ==
    IF \E i \in 1..Len(l) : l[i] = "vertex" THEN VERTEX
    ELSE IF \E i \in 1..Len(l) : l[i] = "fragment" THEN FRAGMENT
    ELSE NONE

\* The section selected by the most recent selecting marker line before line i.
SectionAt(lines, i) ==
    LET S == { j \in 1..(i - 1) : IsMarker(lines[j]) /\ Selects(lines[j]) # NONE }
    IN  IF S = {} THEN NONE
        ELSE Selects(lines[CHOOSE j \in S : \A k \in S : k <= j])

\* The text of section sec: line + "\n" for each content line of the section, from line i on.
RECURSIVE Routed(_, _, _)
Routed(lines, sec, i) ==
    IF i > Len(lines) THEN <<>>
    ELSE (IF ~IsMarker(lines[i]) /\ SectionAt(lines, i) = sec
          THEN lines[i] \o <<"\n">> ELSE <<>>) \o Routed(lines, sec, i + 1)

\* C1: for every input file ParseShader returns, and VertexSource is the
\* concatenation, in file order, of line + "\n" for every line without #shader
\* whose most recent selecting marker line selected vertex, FragmentSource the
\* same for fragment; no marker line is copied, a section with no marker is empty.
C1_RoutesByMarker ==
    /\ pc # "crashed"
    /\ pc = "CS_CreateProgram" =>
         /\ source.VertexSource = Routed(file.lines, VERTEX, 1)
         /\ source.FragmentSource = Routed(file.lines, FRAGMENT, 1)

\* C2: a content line read while the section is still NONE is discarded: no
\* buffer outside ss[0], ss[1] is accessed, nothing is appended to ss[0] or ss[1],
\* and a file with no marker line returns two empty strings without error.
C2_LeadingLinesDiscarded ==
    /\ ~oob
    /\ pc # "crashed"
    /\ type = NONE => ss[0] = <<>> /\ ss[1] = <<>>
    /\ (pc = "CS_CreateProgram" /\ \A i \in 1..Len(file.lines) : ~IsMarker(file.lines[i]))
         => source = [VertexSource |-> <<>>, FragmentSource |-> <<>>]

\* C3: when the shader file cannot be opened, what ParseShader hands back is
\* not a bundle of two empty strings, the result for a readable empty file, and
\* main builds no program from it: CreateShaders creates no object.
C3_UnreadableFileFails ==
    ~file.readable =>
        /\ pc = "CS_CreateProgram" =>
             source # [VertexSource |-> <<>>, FragmentSource |-> <<>>]
        /\ objs = <<>>

\* C4: after a call that leaves n codes queued, GLLogCall has printed exactly n
\* reports, one per code in queue order, each tagged with the call, has left the
\* queue empty and has returned false if n >= 1, true if n = 0.
C4_ReportsEveryCode ==
    pc = "G_Assert" =>
        /\ printed = [i \in 1..Len(xerrs) |-> Cout("[OpenGL Error]", xerrs[i], "x", cur, cur)]
        /\ errQueue = <<>>
        /\ logRet = (xerrs = <<>>)

\* C5: GLClearError has emptied the error queue when x executes, so every error
\* reported under a call's text and line was raised by that call, and GLLogCall
\* returns false only when x itself raised a code.
C5_StaleNeverAttributed ==
    /\ pc = "G_Call" => errQueue = <<>>
    /\ \A i \in 1..Len(out) :
         out[i].kind = "[OpenGL Error]" => out[i].by = out[i].line
    /\ (pc = "G_Assert" /\ ~logRet) => xerrs # <<>>

\* C5, its case: stale codes were queued when a guarded call began, and that
\* call's own error was reported under its own line.
C5_Witness ==
    /\ pc = "G_Assert"
    /\ drained > 0
    /\ ~logRet
    /\ printed # <<>>
    /\ Last(out).line = cur /\ Last(out).by = cur

\* C6: when CreateShaders returns, every shader object it created has been
\* named by glDeleteShader exactly once.
C6_NoStageOutlivesBuild ==
    pc = "Main_UseProgram" =>
        \A h \in 1..Len(objs) : objs[h].kind = "shader" => objs[h].deletes = 1

\* C7: when the vertex text fails to compile, CompileShader prints the failure
\* tagged vertex, deletes the shader and yields 0; the fragment text is still
\* compiled, and CreateShaders returns 0.
C7_VertexFailureYieldsZero ==
    \A h \in 1..Len(objs) :
        ( /\ objs[h].kind = "shader"
          /\ objs[h].stype = GL_VERTEX_SHADER
          /\ ~objs[h].compiled
          /\ shaderType = GL_FRAGMENT_SHADER )
        => /\ objs[h].deletes = 1
           /\ vs = 0
           /\ \E i \in 1..Len(out) :
                out[i].kind = "Failed to compile" /\ out[i].function = "vertex"
           /\ pc = "Main_UseProgram" =>
                /\ \E f \in 1..Len(objs) :
                     objs[f].kind = "shader" /\ objs[f].stype = GL_FRAGMENT_SHADER
                /\ shader = 0

\* C8: when CreateShaders returns, the value is the handle of a program whose
\* link status is true and that has not been deleted (whatever glValidateProgram
\* found), or it is 0, the program the call created has been deleted and a
\* compile or link diagnostic has been printed.
C8_ResultGuarantee ==
    pc = "Main_UseProgram" =>
        IF shader # 0
        THEN IsName(shader, "program") /\ objs[shader].linked
        ELSE /\ objs[program].kind = "program"
             /\ objs[program].deletes = 1
             /\ \E i \in 1..Len(out) :
                  out[i].kind \in {"Failed to compile", "Failed to link program!"}

\* C8, its case: CreateShaders has returned the handle of a linked program that
\* failed validation.
C8_Witness ==
    /\ pc = "Main_UseProgram"
    /\ shader # 0
    /\ objs[shader].linked
    /\ ~objs[shader].validated

C10_ProgramReleasedOnce ==
    /\ ~staleUse
    /\ \A h \in 1..Len(objs) : objs[h].kind = "program" => objs[h].deletes <= 1
    /\ (pc = "exit" /\ glfw = "terminated") =>
         \A h \in 1..Len(objs) : objs[h].kind = "program" => objs[h].deletes = 1

\* C10, its case: the link failed, CreateShaders deleted the program, and main
\* ran frames of the render loop and reached glfwTerminate.
C10_Witness ==
    /\ pc = "exit"
    /\ glfw = "terminated"
    /\ program # 0
    /\ objs[program].deletes = 1
    /\ shader = 0
    /\ frames > 0

====
